---- MODULE Spec2Model ----
(***************************************************************************)
(* Model of qiitareactioncounter: the page bound finder                    *)
(* (find_valid_last_page), the article collector (collect_articles), the   *)
(* reaction aggregator (count_reactions), the writer and the reader of the *)
(* persisted distribution file (ReactionCounts.to_csv and from_csv), the   *)
(* query builder (create_query), the counting run (run_count_reactions),   *)
(* the analyzer (analyze_reactions) and the whole pipeline (run_analysis). *)
(*                                                                         *)
(* SpecFind runs find_valid_last_page, SpecCollect runs collect_articles,  *)
(* SpecDist runs count_reactions or from_csv, SpecRoundTrip runs to_csv    *)
(* and then from_csv, SpecQuery runs create_query, SpecRun runs            *)
(* run_count_reactions, SpecStats runs analyze_reactions and SpecAnalysis  *)
(* runs run_analysis; SpecFindAny and SpecRunAny run find_valid_last_page  *)
(* and run_count_reactions against a remote source whose requests may      *)
(* fail, and SpecSelect runs the page choice of run_count_reactions alone. *)
(* The variables of the components a specification does not run stay at    *)
(* their idle values.                                                      *)
(***************************************************************************)
EXTENDS Integers, Sequences, FiniteSets, Bags, TLC

VARIABLES
    \* find_valid_last_page
    k,                  \* remote source: pages 1..k are non-empty, all above k empty
    left, right, last_valid_page,
    find_pc,            \* "first" | "search" | "done"
    find_ret,           \* the value returned (NoValue until it returns)
    calls,              \* number of get_articles calls made by find_valid_last_page
    source,             \* "monotonic": every page answers 200 by the pattern k;
                        \* "any": a request may fail, and a page up to k may be
                        \* empty at one request and non-empty at another
    failed_search,      \* the pages whose fetch by find_valid_last_page failed
    \* collect_articles
    sample_size, pages_to_fetch, collected_articles,
    fetched,            \* page numbers passed to get_articles, in call order
    page_status,        \* HTTP status of each of those calls
    page_results,       \* what get_articles returned for each of those calls
    collect_pc,         \* "loop" | "after_loop" | "done" | "exit" | "raised"
    exit_status,        \* argument of sys.exit (NoValue while running)
    \* count_reactions
    articles,           \* the argument of count_reactions
    counts,             \* the dict of the three frequency distributions
    count_idx,          \* number of articles the for loop has processed
    count_pc,           \* "loop" | "done"
    \* ReactionCounts.from_csv
    csv_file,           \* the data rows of the file (the header row is implied)
    csv_idx,            \* number of rows the reader loop has processed
    likes, stocks, reactions,
    csv_pc,             \* "idle" | "read" | "done"
    \* ReactionCounts.to_csv
    self_counts,        \* the ReactionCounts that is written
    written,            \* the lines of the output file, each a list of cells
    write_pc,           \* "idle" | "write" | "written"
    \* run_count_reactions
    settings,           \* the Settings built from the keyword arguments
    query,              \* the search query (None until it is built)
    run_pc,             \* "idle" | "settings" | "token" | "query" | "find" |
                        \* "collect" | "count" | "returned" | "exit" | "raised";
                        \* "create_query" | "query_built" for create_query alone
    \* analyze_reactions
    df,                 \* the rows read from the file: value and reactions
    n_values,           \* the thresholds asked for
    stats,              \* the ReactionStats returned
    stats_pc,           \* "idle" | "analyze" | "done" | "raised"
    \* run_analysis
    ana_settings,       \* the Settings run_analysis is given
    ana_userid, ana_start_date, ana_end_date,   \* its locals userid, start_date, end_date
    ana_pc,             \* "idle" | "userid" | "start_date" | "run_all" |
                        \* "in_run_all" | "analyze_all" | "run_user" |
                        \* "in_run_user" | "analyze_user" | "done" | "raised"
    \* run_count_reactions, lines 325-337 alone
    sel_sample_size,    \* settings.sample_size
    sel_last_valid_page,    \* last_valid_page
    sel_num_pages_needed,   \* num_pages_needed (NoValue while not assigned)
    sel_branch,         \* "all" | "fallback" | "sample" ("" before the choice)
    sel_pc              \* "idle" | "select" | "selected"

findVars == <<k, left, right, last_valid_page, find_pc, find_ret, calls, source,
              failed_search>>
collectVars == <<sample_size, pages_to_fetch, collected_articles, fetched,
                 page_status, page_results, collect_pc, exit_status>>
countVars == <<articles, counts, count_idx, count_pc>>
csvVars == <<csv_file, csv_idx, likes, stocks, reactions, csv_pc>>
toCsvVars == <<self_counts, written, write_pc>>
runVars == <<settings, query, run_pc>>
statsVars == <<df, n_values, stats, stats_pc>>
anaVars == <<ana_settings, ana_userid, ana_start_date, ana_end_date, ana_pc>>
selectVars == <<sel_sample_size, sel_last_valid_page, sel_num_pages_needed,
                sel_branch, sel_pc>>
vars == <<findVars, collectVars, countVars, csvVars, selectVars, toCsvVars, runVars,
          statsVars, anaVars>>
notFindVars == <<collectVars, countVars, csvVars, selectVars, toCsvVars, runVars, statsVars,
                 anaVars>>
notCollectVars == <<findVars, countVars, csvVars, selectVars, toCsvVars, runVars, statsVars,
                    anaVars>>
notCountVars == <<findVars, collectVars, csvVars, selectVars, toCsvVars, runVars, statsVars,
                  anaVars>>
notCsvVars == <<findVars, collectVars, countVars, toCsvVars, runVars, statsVars,
                anaVars, selectVars>>
notToCsvVars == <<findVars, collectVars, countVars, csvVars, selectVars, runVars, statsVars,
                  anaVars>>
notStatsVars == <<findVars, collectVars, countVars, csvVars, selectVars, toCsvVars, runVars,
                  anaVars>>
\* What the steps of run_count_reactions never touch.
notPipelineVars == <<csvVars, selectVars, statsVars, anaVars>>

NoValue == -1

\* Python's None where a string is expected.
None == "<None>"

(***************************************************************************)
(* Bounds of the model.                                                    *)
(***************************************************************************)
MaxK == 102          \* the remote source has at most MaxK non-empty pages
MaxSample == 3       \* sample_size ranges over -1..MaxSample
MaxPages == 2        \* pages_to_fetch has at most MaxPages entries, pages 1..MaxPages
MaxPageLen == 2      \* a page of the remote source holds at most MaxPageLen articles
MaxArticles == 3     \* count_reactions is given at most MaxArticles articles
MaxCount == 1        \* their like and stock counts range over 0..MaxCount
MaxRows == 2         \* a persisted distribution file has at most MaxRows data rows
MaxRunK == 3         \* in a whole run the remote source has at most MaxRunK non-empty pages
MaxValue == 3        \* an analyzed file has the values 0..MaxValue
MaxFreq == 2         \* each with a frequency in 0..MaxFreq
MaxHundreds == 101   \* the page choice alone is given up to MaxHundreds * 100 + 99 articles to sample

(***************************************************************************)
(* Generic helpers.                                                        *)
(***************************************************************************)
Min(a, b) == IF a <= b THEN a ELSE b

Range(s) == {s[i] : i \in DOMAIN s}

SeqsUpTo(S, n) == UNION {[1..m -> S] : m \in 0..n}

RECURSIVE Flatten(_)
Flatten(ss) == IF ss = <<>> THEN <<>> ELSE Head(ss) \o Flatten(Tail(ss))

\* A dict with integer keys is a function on the finite set of its keys.
EmptyDict == [x \in {} |-> 0]

DictGet(d, key, default) == IF key \in DOMAIN d THEN d[key] ELSE default

DictPut(d, key, v) == [x \in DOMAIN d \cup {key} |-> IF x = key THEN v ELSE d[x]]

RECURSIVE SumOver(_, _)
SumOver(d, S) ==
    IF S = {} THEN 0
    ELSE LET x == CHOOSE y \in S : TRUE IN d[x] + SumOver(d, S \ {x})

DictSum(d) == SumOver(d, DOMAIN d)

SeqToBag(s) == [x \in Range(s) |-> Cardinality({i \in DOMAIN s : s[i] = x})]

(***************************************************************************)
(* get_articles: one request to the search endpoint.  A response is a      *)
(* record [status, body]; a non-200 response yields the empty list, a 200  *)
(* response yields its body's articles.                                    *)
(***************************************************************************)
QiitaArticle(id, likes_count, stocks_count) ==
    [id |-> id, likes_count |-> likes_count, stocks_count |-> stocks_count]

ErrorBody == <<[message |-> "Rate limit exceeded", type |-> "rate_limit_exceeded"]>>

get_articles_ignoring_status(r) == r.body

get_articles(r) == IF r.status # 200 THEN <<>> ELSE r.body

\* The articles page `page` of the remote source holds when it holds n of them.
PageBody(page, n) == [i \in 1..n |-> QiitaArticle(<<page, i>>, i, page)]

(***************************************************************************)
(* find_valid_last_page                                                    *)
(***************************************************************************)
ApiPageLimit == 100

\* Response of a remote source with the monotonic emptiness pattern k.
MonotonicResponse(page) ==
    [status |-> 200, body |-> IF page <= k THEN PageBody(page, 1) ELSE <<>>]

\* Responses of a remote source whose requests may fail and whose pages up
\* to k may or may not hold an article at each request.
AnyResponses(page) ==
    {[status |-> 500, body |-> ErrorBody]}
        \cup {[status |-> 200, body |-> PageBody(page, n)] :
                n \in 0..(IF page <= k THEN 1 ELSE 0)}

\* What one request of find_valid_last_page for `page` can answer.
SearchResponses(page) ==
    IF source = "monotonic" THEN {MonotonicResponse(page)}
    ELSE AnyResponses(page)

Mid(l, r) == (l + r) \div 2

\* Mutants of the loop body of the binary search.
SearchUpdateForgetsValid(l, r, lv, page_articles) ==
    IF page_articles # <<>>
    THEN [left |-> Mid(l, r) + 1, right |-> r, last_valid_page |-> lv]
    ELSE [left |-> l, right |-> Mid(l, r) - 1, last_valid_page |-> lv]

SearchUpdateKeepsMid(l, r, lv, page_articles) ==
    IF page_articles # <<>>
    THEN [left |-> Mid(l, r) + 1, right |-> r, last_valid_page |-> Mid(l, r)]
    ELSE [left |-> l, right |-> Mid(l, r), last_valid_page |-> lv]

SearchUpdateKeepsLeft(l, r, lv, page_articles) ==
    IF page_articles # <<>>
    THEN [left |-> Mid(l, r), right |-> r, last_valid_page |-> Mid(l, r)]
    ELSE [left |-> l, right |-> Mid(l, r) - 1, last_valid_page |-> lv]

\* The loop body: the new left, right and last_valid_page after fetching mid.
SearchUpdate(l, r, lv, page_articles) ==
    IF page_articles # <<>>
    THEN [left |-> Mid(l, r) + 1, right |-> r, last_valid_page |-> Mid(l, r)]
    ELSE [left |-> l, right |-> Mid(l, r) - 1, last_valid_page |-> lv]

FindInit ==
    /\ k \in 0..MaxK
    /\ left = 1
    /\ right = ApiPageLimit
    /\ last_valid_page = 1
    /\ find_pc = "first"
    /\ find_ret = NoValue
    /\ calls = 0
    /\ source = "monotonic"
    /\ failed_search = {}

FindIdle ==
    /\ k = 0 /\ left = 0 /\ right = 0 /\ last_valid_page = 0
    /\ find_pc = "idle" /\ find_ret = NoValue /\ calls = 0
    /\ source = "monotonic" /\ failed_search = {}

\* Before a search on a remote source whose requests may fail.
FindAnyIdle ==
    /\ k = 0 /\ left = 0 /\ right = 0 /\ last_valid_page = 0
    /\ find_pc = "idle" /\ find_ret = NoValue /\ calls = 0
    /\ source = "any" /\ failed_search = {}

\* A search on a remote source that may answer anything on every page.
FindAnyInit ==
    /\ k = ApiPageLimit
    /\ left = 1
    /\ right = ApiPageLimit
    /\ last_valid_page = 1
    /\ find_pc = "first"
    /\ find_ret = NoValue
    /\ calls = 0
    /\ source = "any"
    /\ failed_search = {}

\* Lines 103-105: fetch page 1; return 0 when it is empty.
FindFirstPage ==
    /\ find_pc = "first"
    /\ \E r \in SearchResponses(1) :
         LET page_articles == get_articles(r) IN
           /\ calls' = calls + 1
           /\ failed_search' = IF r.status # 200 THEN failed_search \cup {1}
                                ELSE failed_search
           /\ IF page_articles = <<>>
              THEN find_pc' = "done" /\ find_ret' = 0
              ELSE find_pc' = "search" /\ find_ret' = find_ret
    /\ UNCHANGED <<k, left, right, last_valid_page, source>>
    /\ UNCHANGED notFindVars

\* Lines 107-115: one iteration of the while loop.
FindStep ==
    /\ find_pc = "search"
    /\ left <= right
    /\ \E r \in SearchResponses(Mid(left, right)) :
         LET page_articles == get_articles(r)
             u == SearchUpdate(left, right, last_valid_page, page_articles) IN
           /\ calls' = calls + 1
           /\ failed_search' = IF r.status # 200
                                THEN failed_search \cup {Mid(left, right)}
                                ELSE failed_search
           /\ left' = u.left
           /\ right' = u.right
           /\ last_valid_page' = u.last_valid_page
    /\ UNCHANGED <<k, find_pc, find_ret, source>>
    /\ UNCHANGED notFindVars

\* Line 117: the loop has ended.
FindReturn ==
    /\ find_pc = "search"
    /\ left > right
    /\ find_pc' = "done"
    /\ find_ret' = last_valid_page
    /\ UNCHANGED <<k, left, right, last_valid_page, calls, source, failed_search>>
    /\ UNCHANGED notFindVars

FindNext ==
    \/ FindFirstPage
    \/ FindStep
    \/ FindReturn

(***************************************************************************)
(* collect_articles                                                        *)
(***************************************************************************)
\* What one request of collect_articles for `page` can answer: a failure, or
\* a page of 0..MaxPageLen articles.
CollectResponses(page) ==
    {[status |-> 500, body |-> ErrorBody]}
        \cup {[status |-> 200, body |-> PageBody(page, n)] : n \in 0..MaxPageLen}

\* random.sample(population, n): every ordered choice of n distinct positions.
\* A negative n raises ValueError (the result set is empty).
RandomSampleWithReplacement(population, n) ==
    IF n < 0 THEN {}
    ELSE {[i \in 1..n |-> population[f[i]]] : f \in [1..n -> DOMAIN population]}

RandomSampleWhole(population, n) ==
    IF n < 0 THEN {} ELSE {population}

RandomSample(population, n) ==
    IF n < 0 THEN {}
    ELSE {[i \in 1..n |-> population[f[i]]] :
            f \in {g \in [1..n -> DOMAIN population] :
                     \A i, j \in 1..n : i # j => g[i] # g[j]}}

\* collected_articles.extend(articles)
ExtendPrepends(acc, page_articles) == page_articles \o acc

Extend(acc, page_articles) == acc \o page_articles

\* Line 171: the break condition of the loop.
BreakOnlyWhenExceeded(n, size) == n > size

ReachedSampleSize(n, size) == n >= size

CollectInit ==
    /\ sample_size \in -1..MaxSample
    /\ pages_to_fetch \in SeqsUpTo(1..MaxPages, MaxPages)
    /\ collected_articles = <<>>
    /\ fetched = <<>>
    /\ page_status = <<>>
    /\ page_results = <<>>
    /\ collect_pc = "loop"
    /\ exit_status = NoValue

CollectIdle ==
    /\ sample_size = 0 /\ pages_to_fetch = <<>> /\ collected_articles = <<>>
    /\ fetched = <<>> /\ page_status = <<>> /\ page_results = <<>>
    /\ collect_pc = "idle" /\ exit_status = NoValue

\* Lines 167-172: one iteration of the for loop.
CollectFetchPage ==
    /\ collect_pc = "loop"
    /\ Len(fetched) < Len(pages_to_fetch)
    /\ LET page == pages_to_fetch[Len(fetched) + 1] IN
       \E r \in CollectResponses(page) :
         LET page_articles == get_articles(r) IN
           /\ fetched' = Append(fetched, page)
           /\ page_status' = Append(page_status, r.status)
           /\ page_results' = Append(page_results, page_articles)
           /\ collected_articles' = Extend(collected_articles, page_articles)
           /\ collect_pc' = IF ReachedSampleSize(Len(collected_articles'), sample_size)
                            THEN "after_loop" ELSE "loop"
    /\ UNCHANGED <<sample_size, pages_to_fetch, exit_status>>
    /\ UNCHANGED notCollectVars

\* The for loop ends because pages_to_fetch is exhausted.
CollectLoopEnd ==
    /\ collect_pc = "loop"
    /\ Len(fetched) = Len(pages_to_fetch)
    /\ collect_pc' = "after_loop"
    /\ UNCHANGED <<sample_size, pages_to_fetch, collected_articles, fetched,
                   page_status, page_results, exit_status>>
    /\ UNCHANGED notCollectVars

\* The exit of lines 174-176 with status 0.
CollectExitStatusZero ==
    /\ collect_pc = "after_loop"
    /\ Len(collected_articles) = 0
    /\ collect_pc' = "exit"
    /\ exit_status' = 0
    /\ UNCHANGED <<sample_size, pages_to_fetch, collected_articles, fetched,
                   page_status, page_results>>
    /\ UNCHANGED notCollectVars

\* Lines 174-176: nothing collected, sys.exit(1).
CollectExit ==
    /\ collect_pc = "after_loop"
    /\ Len(collected_articles) = 0
    /\ collect_pc' = "exit"
    /\ exit_status' = 1
    /\ UNCHANGED <<sample_size, pages_to_fetch, collected_articles, fetched,
                   page_status, page_results>>
    /\ UNCHANGED notCollectVars

\* Lines 178-181: more than sample_size collected, sample and return.
CollectSample ==
    /\ collect_pc = "after_loop"
    /\ Len(collected_articles) # 0
    /\ Len(collected_articles) > sample_size
    /\ \E s \in RandomSample(collected_articles, sample_size) :
         /\ collected_articles' = s
         /\ collect_pc' = "done"
    /\ UNCHANGED <<sample_size, pages_to_fetch, fetched, page_status,
                   page_results, exit_status>>
    /\ UNCHANGED notCollectVars

\* Line 179 with a negative sample_size: random.sample raises ValueError.
CollectSampleRaises ==
    /\ collect_pc = "after_loop"
    /\ Len(collected_articles) # 0
    /\ Len(collected_articles) > sample_size
    /\ RandomSample(collected_articles, sample_size) = {}
    /\ collect_pc' = "raised"
    /\ UNCHANGED <<sample_size, pages_to_fetch, collected_articles, fetched,
                   page_status, page_results, exit_status>>
    /\ UNCHANGED notCollectVars

\* Line 181 without sampling: the accumulator is returned as it is.
CollectReturn ==
    /\ collect_pc = "after_loop"
    /\ Len(collected_articles) # 0
    /\ ~(Len(collected_articles) > sample_size)
    /\ collect_pc' = "done"
    /\ UNCHANGED <<sample_size, pages_to_fetch, collected_articles, fetched,
                   page_status, page_results, exit_status>>
    /\ UNCHANGED notCollectVars

CollectNext ==
    \/ CollectFetchPage
    \/ CollectLoopEnd
    \/ CollectExit
    \/ CollectSample
    \/ CollectSampleRaises
    \/ CollectReturn

(***************************************************************************)
(* count_reactions                                                         *)
(***************************************************************************)
\* Mutants of the loop body.
CountArticleReactionsByLikes(c, article) ==
    LET like_count == article.likes_count
        stock_count == article.stocks_count
        reaction_count == like_count
    IN [likes |-> DictPut(c.likes, like_count, DictGet(c.likes, like_count, 0) + 1),
        stocks |-> DictPut(c.stocks, stock_count, DictGet(c.stocks, stock_count, 0) + 1),
        reactions |-> DictPut(c.reactions, reaction_count,
                              DictGet(c.reactions, reaction_count, 0) + 1)]

\* Lines 202-211: the frequencies after one more article.
CountArticle(c, article) ==
    LET like_count == article.likes_count
        stock_count == article.stocks_count
        reaction_count == like_count + stock_count
    IN [likes |-> DictPut(c.likes, like_count, DictGet(c.likes, like_count, 0) + 1),
        stocks |-> DictPut(c.stocks, stock_count, DictGet(c.stocks, stock_count, 0) + 1),
        reactions |-> DictPut(c.reactions, reaction_count,
                              DictGet(c.reactions, reaction_count, 0) + 1)]

\* The article lists count_reactions is given: any like and stock counts.
ArticleLists ==
    {[i \in DOMAIN p |-> QiitaArticle(i, p[i][1], p[i][2])] :
        p \in SeqsUpTo((0..MaxCount) \X (0..MaxCount), MaxArticles)}

CountInit ==
    /\ articles \in ArticleLists
    /\ counts = [likes |-> EmptyDict, stocks |-> EmptyDict, reactions |-> EmptyDict]
    /\ count_idx = 0
    /\ count_pc = "loop"

CountIdle ==
    /\ articles = <<>>
    /\ counts = [likes |-> EmptyDict, stocks |-> EmptyDict, reactions |-> EmptyDict]
    /\ count_idx = 0
    /\ count_pc = "idle"

\* Lines 201-211: one iteration of the for loop.
CountStep ==
    /\ count_pc = "loop"
    /\ count_idx < Len(articles)
    /\ counts' = CountArticle(counts, articles[count_idx + 1])
    /\ count_idx' = count_idx + 1
    /\ UNCHANGED <<articles, count_pc>>
    /\ UNCHANGED notCountVars

\* Line 213: the three dicts are returned as a ReactionCounts.
CountReturn ==
    /\ count_pc = "loop"
    /\ count_idx = Len(articles)
    /\ count_pc' = "done"
    /\ UNCHANGED <<articles, counts, count_idx>>
    /\ UNCHANGED notCountVars

(***************************************************************************)
(* ReactionCounts.to_csv                                                   *)
(***************************************************************************)
\* str(n) for a non-negative integer, as csv.writer writes it: the decimal
\* digits, most significant first.
DigitChar(d) ==
    CASE d = 0 -> "0" [] d = 1 -> "1" [] d = 2 -> "2" [] d = 3 -> "3"
      [] d = 4 -> "4" [] d = 5 -> "5" [] d = 6 -> "6" [] d = 7 -> "7"
      [] d = 8 -> "8" [] d = 9 -> "9"

RECURSIVE str(_)
str(n) ==
    IF n < 10 THEN <<DigitChar(n)>>
    ELSE str(n \div 10) \o <<DigitChar(n % 10)>>

\* sorted(S) for a set of integers, written largest first.
RECURSIVE sorted_descending(_)
sorted_descending(S) ==
    IF S = {} THEN <<>>
    ELSE LET m == CHOOSE x \in S : \A y \in S : x >= y
         IN <<m>> \o sorted_descending(S \ {m})

\* sorted(S) for a set of integers: ascending.
RECURSIVE sorted(_)
sorted(S) ==
    IF S = {} THEN <<>>
    ELSE LET m == CHOOSE x \in S : \A y \in S : x <= y
         IN <<m>> \o sorted(S \ {m})

\* Lines 75-81: every value that is a key of one of the three dicts.
all_values(rc) ==
    sorted(DOMAIN rc.likes \cup DOMAIN rc.stocks \cup DOMAIN rc.reactions)

\* Line 86: the header line.
Header == <<"value", "likes", "stocks", "reactions">>

\* The data line of a value with the likes and stocks cells exchanged.
to_csv_row_swapped(rc, value) ==
    <<str(value), str(DictGet(rc.stocks, value, 0)),
      str(DictGet(rc.likes, value, 0)), str(DictGet(rc.reactions, value, 0))>>

\* Lines 89-96: the data line of a value.
to_csv_row(rc, value) ==
    <<str(value), str(DictGet(rc.likes, value, 0)),
      str(DictGet(rc.stocks, value, 0)), str(DictGet(rc.reactions, value, 0))>>

\* Lines 83-96: the lines written to the file.
to_csv(rc) ==
    LET values == all_values(rc)
    IN <<Header>> \o [i \in 1..Len(values) |-> to_csv_row(rc, values[i])]

\* The keys and the counts of the distributions that are written.
DistKeys == {7, 12}

DistCounts == {0, 1, 10}

Dists == UNION {[K -> DistCounts] : K \in SUBSET DistKeys}

ToCsvInit ==
    /\ self_counts \in [likes : Dists, stocks : Dists, reactions : Dists]
    /\ written = <<>>
    /\ write_pc = "write"

ToCsvIdle ==
    /\ self_counts = [likes |-> EmptyDict, stocks |-> EmptyDict,
                      reactions |-> EmptyDict]
    /\ written = <<>>
    /\ write_pc = "idle"

\* Lines 59-96: the whole file is written.
ToCsv ==
    /\ write_pc = "write"
    /\ written' = to_csv(self_counts)
    /\ write_pc' = "written"
    /\ UNCHANGED self_counts
    /\ UNCHANGED notToCsvVars

(***************************************************************************)
(* ReactionCounts.from_csv                                                 *)
(***************************************************************************)
\* int(s) for a cell of decimal digits.
DigitValue(c) ==
    CASE c = "0" -> 0 [] c = "1" -> 1 [] c = "2" -> 2 [] c = "3" -> 3
      [] c = "4" -> 4 [] c = "5" -> 5 [] c = "6" -> 6 [] c = "7" -> 7
      [] c = "8" -> 8 [] c = "9" -> 9

RECURSIVE int(_)
int(s) ==
    IF s = <<>> THEN 0
    ELSE int(SubSeq(s, 1, Len(s) - 1)) * 10 + DigitValue(s[Len(s)])

\* Lines 131-136: a count is stored under its value only when it is positive.
StoreIfNotNegative(d, value, n) == IF n >= 0 THEN DictPut(d, value, n) ELSE d

StoreIfPositive(d, value, n) == IF n > 0 THEN DictPut(d, value, n) ELSE d

\* The cells of the files read: the value column and the three count columns.
ValueCells == {<<"0">>, <<"7">>, <<"1", "2">>}

CountCells == {<<"0">>, <<"1", "0">>}

CsvRows == [value : ValueCells, likes : CountCells, stocks : CountCells,
            reactions : CountCells]

CsvInit ==
    /\ csv_file \in SeqsUpTo(CsvRows, MaxRows)
    /\ csv_idx = 0
    /\ likes = EmptyDict
    /\ stocks = EmptyDict
    /\ reactions = EmptyDict
    /\ csv_pc = "read"

CsvIdle ==
    /\ csv_file = <<>> /\ csv_idx = 0
    /\ likes = EmptyDict /\ stocks = EmptyDict /\ reactions = EmptyDict
    /\ csv_pc = "idle"

\* csv.DictReader: the first line names the columns, every further line is a
\* row keyed by those names.
Column(raw, name) == CHOOSE j \in DOMAIN raw[1] : raw[1][j] = name

DictReader(raw) ==
    [i \in 1..(Len(raw) - 1) |->
        [value |-> raw[i + 1][Column(raw, "value")],
         likes |-> raw[i + 1][Column(raw, "likes")],
         stocks |-> raw[i + 1][Column(raw, "stocks")],
         reactions |-> raw[i + 1][Column(raw, "reactions")]]]

\* Lines 122-123: the file that to_csv wrote is opened for reading.
FromCsvOpen ==
    /\ csv_pc = "idle"
    /\ write_pc = "written"
    /\ csv_file' = DictReader(written)
    /\ csv_pc' = "read"
    /\ UNCHANGED <<csv_idx, likes, stocks, reactions>>
    /\ UNCHANGED notCsvVars

\* Lines 124-136: one row of the reader loop.
FromCsvRow ==
    /\ csv_pc = "read"
    /\ csv_idx < Len(csv_file)
    /\ LET row == csv_file[csv_idx + 1]
           value == int(row.value)
           likes_value == int(row.likes)
           stocks_value == int(row.stocks)
           reactions_value == int(row.reactions)
       IN /\ likes' = StoreIfPositive(likes, value, likes_value)
          /\ stocks' = StoreIfPositive(stocks, value, stocks_value)
          /\ reactions' = StoreIfPositive(reactions, value, reactions_value)
    /\ csv_idx' = csv_idx + 1
    /\ UNCHANGED <<csv_file, csv_pc>>
    /\ UNCHANGED notCsvVars

\* Line 138: the three dicts are returned as a ReactionCounts.
FromCsvReturn ==
    /\ csv_pc = "read"
    /\ csv_idx = Len(csv_file)
    /\ csv_pc' = "done"
    /\ UNCHANGED <<csv_file, csv_idx, likes, stocks, reactions>>
    /\ UNCHANGED notCsvVars

DistNext ==
    \/ CountStep
    \/ CountReturn
    \/ FromCsvRow
    \/ FromCsvReturn

RoundTripNext ==
    \/ ToCsv
    \/ FromCsvOpen
    \/ FromCsvRow
    \/ FromCsvReturn

(***************************************************************************)
(* create_query and run_count_reactions                                    *)
(***************************************************************************)
\* The truth value of an optional string: None and "" are false.
Truthy(x) == x # None /\ x # ""

\* create_query without the space that separates the user clause.
create_query_without_space(start_date, end_date, userid) ==
    LET base == "created:>=" \o start_date \o " created:<=" \o end_date
    IN IF Truthy(userid) THEN base \o "user:" \o userid ELSE base

\* Lines 131-134.
create_query(start_date, end_date, userid) ==
    LET base == "created:>=" \o start_date \o " created:<=" \o end_date
    IN IF Truthy(userid) THEN base \o " user:" \o userid ELSE base

\* The arguments create_query is called with.
QuerySettings ==
    [qiita_token : {"token"},
     start_date : {"1900-01-01", "2024-01-01", "2024-06-30", "2025-01-01"},
     end_date : {"2099-12-31", "2024-12-31", "2025-01-01"},
     userid : {None, "", "test_user", "alice", "user:bob"},
     sample_size : {1000}]

QueryInit ==
    /\ settings \in QuerySettings
    /\ query = None
    /\ run_pc = "create_query"

\* Lines 120-134: create_query is applied to its arguments.
CreateQuery ==
    /\ run_pc = "create_query"
    /\ query' = create_query(settings.start_date, settings.end_date,
                             settings.userid)
    /\ run_pc' = "query_built"
    /\ UNCHANGED settings
    /\ UNCHANGED <<findVars, collectVars, countVars, toCsvVars, notPipelineVars>>

\* Line 325.
per_page == 100

\* list(range(a, b))
range(a, b) == [i \in 1..(b - a) |-> a + i - 1]

\* The number of pages without the one added for the remainder.
num_pages_needed_floor(size) == size \div per_page

\* The number of pages with one more than the one added for the remainder.
num_pages_needed_plus_two(size) == (size \div per_page) + 2

\* Line 331.
num_pages_needed(size) == (size \div per_page) + 1

\* Lines 328-337: which branch chooses the pages.
SelectBranch(size, lvp) ==
    IF size >= lvp * per_page THEN "all"
    ELSE IF num_pages_needed(size) > lvp THEN "fallback"
    ELSE "sample"

\* The lists of lines 328-337 taken from the pages up to last_valid_page + 1.
SelectPagesBeyond(size, lvp) ==
    IF SelectBranch(size, lvp) = "sample"
    THEN RandomSample(range(1, lvp + 2), num_pages_needed(size))
    ELSE {range(1, lvp + 2)}

\* Lines 328-337: the lists pages_to_fetch can be; none when random.sample
\* raises ValueError.
SelectPages(size, lvp) ==
    IF SelectBranch(size, lvp) = "sample"
    THEN RandomSample(range(1, lvp + 1), num_pages_needed(size))
    ELSE {range(1, lvp + 1)}

\* The sample sizes of a whole run: the small ones, and those around the
\* multiples of per_page.
RunSampleSizes ==
    {-per_page - 1} \cup (-1..MaxSample)
        \cup {q * per_page + r : q \in 1..MaxRunK, r \in {-1, 0, 1}}

RunSettings ==
    [qiita_token : {"", "token"}, start_date : {None, "1900-01-01"},
     end_date : {"2099-12-31"}, userid : {None}, sample_size : RunSampleSizes]

\* The settings of a run against a remote source whose requests may fail.
RunAnySettings ==
    [qiita_token : {"token"}, start_date : {"1900-01-01"},
     end_date : {"2099-12-31"}, userid : {None},
     sample_size : {-per_page - 1, 1, per_page + 1, MaxRunK * per_page}]

RunAnyInit ==
    /\ settings \in RunAnySettings
    /\ query = None
    /\ run_pc = "settings"

RunInit ==
    /\ settings \in RunSettings
    /\ query = None
    /\ run_pc = "settings"

RunIdle ==
    /\ settings = [qiita_token |-> "", start_date |-> None, end_date |-> None,
                   userid |-> None, sample_size |-> 0]
    /\ query = None
    /\ run_pc = "idle"

\* Lines 301-308: Settings(**kwargs) validates the fields; start_date is
\* declared str (line 38), so None is rejected with a ValidationError.
RunLoadSettings ==
    /\ run_pc = "settings"
    /\ run_pc' = IF settings.start_date = None THEN "raised" ELSE "token"
    /\ UNCHANGED <<settings, query>>
    /\ UNCHANGED <<findVars, collectVars, countVars, toCsvVars, notPipelineVars>>

\* Lines 310-312: an empty token ends the process with status 1.
RunCheckToken ==
    /\ run_pc = "token"
    /\ IF settings.qiita_token = ""
       THEN run_pc' = "exit" /\ exit_status' = 1
       ELSE run_pc' = "query" /\ exit_status' = exit_status
    /\ UNCHANGED <<settings, query>>
    /\ UNCHANGED <<sample_size, pages_to_fetch, collected_articles, fetched,
                   page_status, page_results, collect_pc>>
    /\ UNCHANGED <<findVars, countVars, toCsvVars, notPipelineVars>>

\* Lines 314-320: the query is built and find_valid_last_page is called.
RunCreateQuery ==
    /\ run_pc = "query"
    /\ query' = create_query(settings.start_date, settings.end_date,
                             settings.userid)
    /\ run_pc' = "find"
    /\ k' \in 0..MaxRunK
    /\ left' = 1
    /\ right' = ApiPageLimit
    /\ last_valid_page' = 1
    /\ find_pc' = "first"
    /\ find_ret' = NoValue
    /\ calls' = 0
    /\ failed_search' = {}
    /\ UNCHANGED source
    /\ UNCHANGED settings
    /\ UNCHANGED <<collectVars, countVars, toCsvVars, notPipelineVars>>

\* Lines 321-323: no page holds an article, sys.exit(1).
RunNoArticles ==
    /\ run_pc = "find"
    /\ find_pc = "done"
    /\ find_ret = 0
    /\ run_pc' = "exit"
    /\ exit_status' = 1
    /\ UNCHANGED <<settings, query>>
    /\ UNCHANGED <<sample_size, pages_to_fetch, collected_articles, fetched,
                   page_status, page_results, collect_pc>>
    /\ UNCHANGED <<findVars, countVars, toCsvVars, notPipelineVars>>

\* Lines 325-348: the pages are chosen and collect_articles is called.
RunSelectPages ==
    /\ run_pc = "find"
    /\ find_pc = "done"
    /\ find_ret # 0
    /\ pages_to_fetch' \in SelectPages(settings.sample_size, find_ret)
    /\ sample_size' = settings.sample_size
    /\ collected_articles' = <<>>
    /\ fetched' = <<>>
    /\ page_status' = <<>>
    /\ page_results' = <<>>
    /\ collect_pc' = "loop"
    /\ run_pc' = "collect"
    /\ UNCHANGED <<settings, query, exit_status>>
    /\ UNCHANGED <<findVars, countVars, toCsvVars, notPipelineVars>>

\* Lines 335-337 with a negative number of pages: random.sample raises
\* ValueError.
RunSelectRaises ==
    /\ run_pc = "find"
    /\ find_pc = "done"
    /\ find_ret # 0
    /\ SelectPages(settings.sample_size, find_ret) = {}
    /\ run_pc' = "raised"
    /\ UNCHANGED <<settings, query>>
    /\ UNCHANGED <<findVars, collectVars, countVars, toCsvVars, notPipelineVars>>

\* Line 349: count_reactions is called with what collect_articles returned.
RunCount ==
    /\ run_pc = "collect"
    /\ collect_pc = "done"
    /\ articles' = collected_articles
    /\ counts' = [likes |-> EmptyDict, stocks |-> EmptyDict,
                  reactions |-> EmptyDict]
    /\ count_idx' = 0
    /\ count_pc' = "loop"
    /\ run_pc' = "count"
    /\ UNCHANGED <<settings, query>>
    /\ UNCHANGED <<findVars, collectVars, toCsvVars, notPipelineVars>>

\* Lines 350-353: the distributions are written to output_file and the
\* function returns.
RunToCsv ==
    /\ run_pc = "count"
    /\ count_pc = "done"
    /\ self_counts' = counts
    /\ written' = to_csv(counts)
    /\ write_pc' = "written"
    /\ run_pc' = "returned"
    /\ UNCHANGED <<settings, query>>
    /\ UNCHANGED <<findVars, collectVars, countVars, notPipelineVars>>

\* collect_articles cannot raise here: a negative sample_size gives it no page
\* to fetch, or makes the choice of the pages raise before it is called.
RunNext ==
    \/ RunLoadSettings
    \/ RunCheckToken
    \/ RunCreateQuery
    \/ FindFirstPage
    \/ FindStep
    \/ FindReturn
    \/ RunNoArticles
    \/ RunSelectPages
    \/ RunSelectRaises
    \/ CollectFetchPage
    \/ CollectLoopEnd
    \/ CollectExit
    \/ CollectSample
    \/ CollectReturn
    \/ RunCount
    \/ CountStep
    \/ CountReturn
    \/ RunToCsv

(***************************************************************************)
(* The page choice of run_count_reactions (lines 325-337) applied to a     *)
(* sample size and a last valid page, without drawing the pages.           *)
(***************************************************************************)
\* The sample sizes: two negative ones, and those around the multiples of
\* per_page up to MaxHundreds * per_page.
SelectSampleSizes ==
    {-per_page - 1, -1}
        \cup {q * per_page + r : q \in 0..MaxHundreds, r \in {0, 1, per_page - 1}}

\* find_valid_last_page has returned a page of 1..100 (0 exits at line 322).
SelectInit ==
    /\ sel_sample_size \in SelectSampleSizes
    /\ sel_last_valid_page \in 1..ApiPageLimit
    /\ sel_num_pages_needed = NoValue
    /\ sel_branch = ""
    /\ sel_pc = "select"

SelectIdle ==
    /\ sel_sample_size = 0 /\ sel_last_valid_page = 0
    /\ sel_num_pages_needed = NoValue /\ sel_branch = "" /\ sel_pc = "idle"

\* Lines 325-337: the branch taken; num_pages_needed is assigned at line 331
\* only, in the else branch of line 328.
Select ==
    /\ sel_pc = "select"
    /\ sel_branch' = SelectBranch(sel_sample_size, sel_last_valid_page)
    /\ sel_num_pages_needed' =
         IF sel_sample_size >= sel_last_valid_page * per_page THEN NoValue
         ELSE num_pages_needed(sel_sample_size)
    /\ sel_pc' = "selected"
    /\ UNCHANGED <<sel_sample_size, sel_last_valid_page>>
    /\ UNCHANGED <<findVars, collectVars, countVars, csvVars, toCsvVars,
                   runVars, statsVars, anaVars>>

(***************************************************************************)
(* analyze_reactions                                                       *)
(*                                                                         *)
(* The floats numpy computes are modelled as exact fractions num/den; the  *)
(* fraction 0/0 is nan.                                                    *)
(***************************************************************************)
Rat(n, d) == [num |-> n, den |-> d]

NaN == Rat(0, 0)

\* Comparisons of fractions with non-negative denominators.
RatEq(a, b) == a.den # 0 /\ b.den # 0 /\ a.num * b.den = b.num * a.den

RatLeq(a, b) == a.den # 0 /\ b.den # 0 /\ a.num * b.den <= b.num * a.den

\* pd.read_csv: the value and reactions columns of the lines of a file.
read_csv(raw) ==
    LET rows == DictReader(raw)
    IN [i \in DOMAIN rows |->
           [value |-> int(rows[i].value), reactions |-> int(rows[i].reactions)]]

\* [value] * frequency
Repeat(value, n) == [j \in 1..n |-> value]

\* The expansion that lists each value once, whatever its frequency.
ExpandOnce(frame) ==
    Flatten([i \in DOMAIN frame |->
                Repeat(frame[i].value, Min(frame[i].reactions, 1))])

\* Lines 65-68: every value repeated as often as its frequency says.
Expand(frame) ==
    Flatten([i \in DOMAIN frame |-> Repeat(frame[i].value, frame[i].reactions)])

RECURSIVE Insert(_, _)
Insert(x, sq) ==
    IF sq = <<>> THEN <<x>>
    ELSE IF x <= Head(sq) THEN <<x>> \o sq
    ELSE <<Head(sq)>> \o Insert(x, Tail(sq))

\* np.sort of an integer array.
RECURSIVE np_sort(_)
np_sort(a) == IF a = <<>> THEN <<>> ELSE Insert(Head(a), np_sort(Tail(a)))

RECURSIVE np_sum(_)
np_sum(a) == IF a = <<>> THEN 0 ELSE Head(a) + np_sum(Tail(a))

\* np.mean: the sum over the length (nan for an empty array).
np_mean(a) == Rat(np_sum(a), Len(a))

\* np.median: the middle of the sorted array, the mean of the two middle
\* elements for an even length (nan for an empty array).
np_median(a) ==
    LET sq == np_sort(a)
        n == Len(a)
    IN IF n = 0 THEN NaN
       ELSE IF n % 2 = 1 THEN Rat(sq[(n + 1) \div 2], 1)
       ELSE Rat(sq[n \div 2] + sq[n \div 2 + 1], 2)

\* The 90th percentile taken as the element at the rounded-down rank.
np_percentile_90_lower(a) ==
    LET sq == np_sort(a)
        n == Len(a)
    IN Rat(10 * sq[(9 * (n - 1)) \div 10 + 1], 10)

\* np.percentile(a, 90) of a non-empty array: linear interpolation between
\* the elements around rank 0.9 * (n - 1) of the sorted array.
np_percentile_90(a) ==
    LET sq == np_sort(a)
        n == Len(a)
        lo == (9 * (n - 1)) \div 10
        r == (9 * (n - 1)) % 10
        hi == Min(lo + 1, n - 1)
    IN Rat(10 * sq[lo + 1] + r * (sq[hi + 1] - sq[lo + 1]), 10)

\* a[a > t] for a fraction t
GreaterThanRat(a, t) == SelectSeq(a, LAMBDA x : ~RatLeq(Rat(x, 1), t))

\* a[a >= t] for a fraction t
AtLeastRat(a, t) == SelectSeq(a, LAMBDA x : RatLeq(t, Rat(x, 1)))

\* The count of line 84 with a strict comparison against n.
count_more_than(a, n) == Len(SelectSeq(a, LAMBDA x : x > n))

\* Line 84: np.sum(reactions > (n - 1))
count_n_or_more(a, n) == Len(SelectSeq(a, LAMBDA x : x > n - 1))

\* Lines 82-86: the ratio for every n of n_values.
n_more_or_ratio(a, thresholds) ==
    [n \in Range(thresholds) |-> Rat(count_n_or_more(a, n) * 100, Len(a))]

\* Lines 62-97 for a file whose expansion is not empty.
analyze_reactions(frame, thresholds) ==
    LET reaction_values == Expand(frame)
        top_10_threshold == np_percentile_90(reaction_values)
        top_10_articles == AtLeastRat(reaction_values, top_10_threshold)
    IN [total_articles |-> Len(reaction_values),
        median |-> np_median(reaction_values),
        mean |-> np_mean(reaction_values),
        top_10_threshold |-> top_10_threshold,
        top_10_mean |-> np_mean(top_10_articles),
        top_10_median |-> np_median(top_10_articles),
        top_10_count |-> Len(top_10_articles),
        n_more_or_ratio |-> n_more_or_ratio(reaction_values, thresholds)]

\* What an empty expansion gives when np.percentile answers nan.
analyze_reactions_empty(thresholds) ==
    [total_articles |-> 0, median |-> NaN, mean |-> NaN,
     top_10_threshold |-> NaN, top_10_mean |-> NaN, top_10_median |-> NaN,
     top_10_count |-> 0,
     n_more_or_ratio |-> [n \in Range(thresholds) |-> NaN]]

NoStats == [total_articles |-> NoValue]

\* The files analyzed: one row per value 0..MaxValue with a frequency in
\* 0..MaxFreq, and the files of tests/test_analyze_reactions.py.
FrameOf(freq) ==
    [i \in 1..Cardinality(DOMAIN freq) |->
        [value |-> i - 1, reactions |-> freq[i - 1]]]

OneEach(lo, hi) == [i \in 1..(hi - lo + 1) |-> [value |-> lo + i - 1, reactions |-> 1]]

Frames ==
    {FrameOf(freq) : freq \in [0..MaxValue -> 0..MaxFreq]}
        \cup {OneEach(1, 5), OneEach(1, 10)}

ThresholdLists == {<<1, 2, 3>>, <<2, 4, 5>>, <<0>>, <<3, 3>>, <<11, 1>>}

StatsInit ==
    /\ df \in Frames
    /\ n_values \in ThresholdLists
    /\ stats = NoStats
    /\ stats_pc = "analyze"

StatsIdle ==
    /\ df = <<>> /\ n_values = <<>> /\ stats = NoStats /\ stats_pc = "idle"

\* Lines 62-97: the statistics of a file with at least one article.
Analyze ==
    /\ stats_pc = "analyze"
    /\ Expand(df) # <<>>
    /\ stats' = analyze_reactions(df, n_values)
    /\ stats_pc' = "done"
    /\ UNCHANGED <<df, n_values>>
    /\ UNCHANGED notStatsVars

\* Lines 62-97 for a file without any article: np.percentile of an empty
\* array answers nan or raises IndexError, depending on the numpy release.
AnalyzeEmpty ==
    /\ stats_pc = "analyze"
    /\ Expand(df) = <<>>
    /\ \/ stats' = analyze_reactions_empty(n_values) /\ stats_pc' = "done"
       \/ stats' = stats /\ stats_pc' = "raised"
    /\ UNCHANGED <<df, n_values>>
    /\ UNCHANGED notStatsVars

StatsNext ==
    \/ Analyze
    \/ AnalyzeEmpty

(***************************************************************************)
(* run_analysis                                                            *)
(***************************************************************************)
\* The marker of a call that raised instead of returning a string.
Raised == "<raised>"

\* Lines 225-233 of count_reactions.py: the id of the token's owner, or an
\* exception when the answer is not 200.
get_authenticated_user(r) == IF r.status # 200 THEN Raised ELSE r.id

AuthResponses ==
    {[status |-> 200, id |-> "me"], [status |-> 401, id |-> None]}

\* Lines 250-281 of count_reactions.py: the date of the oldest article, or an
\* exception when a request fails or the user has no article.
get_user_oldest_article_date(r) ==
    IF r.status # 200 THEN Raised
    ELSE IF r.total_count = 0 THEN Raised
    ELSE IF r.last_status # 200 THEN Raised
    ELSE IF r.created = <<>> THEN Raised
    ELSE r.created[Len(r.created)]

OldestResponses ==
    {[status |-> 200, total_count |-> 2, last_status |-> 200,
      created |-> <<"2021-05-01", "2020-01-01">>],
     [status |-> 200, total_count |-> 0, last_status |-> 200, created |-> <<>>],
     [status |-> 200, total_count |-> 2, last_status |-> 500, created |-> <<>>],
     [status |-> 200, total_count |-> 2, last_status |-> 200, created |-> <<>>],
     [status |-> 401, total_count |-> 0, last_status |-> 401, created |-> <<>>]}

\* datetime.now().strftime("%Y-%m-%d")
Today == "2025-06-01"

AnaSampleSizes == (-1..MaxSample) \cup {per_page}

AnaSettings ==
    [qiita_token : {"", "token"}, start_date : {None, "2024-01-01"},
     end_date : {None}, userid : {None, "alice"}, sample_size : AnaSampleSizes]

AnaInit ==
    /\ ana_settings \in AnaSettings
    /\ ana_userid = None
    /\ ana_start_date = None
    /\ ana_end_date = None
    /\ ana_pc = "userid"

AnaIdle ==
    /\ ana_settings = [qiita_token |-> "", start_date |-> None,
                       end_date |-> None, userid |-> None, sample_size |-> 0]
    /\ ana_userid = None /\ ana_start_date = None /\ ana_end_date = None
    /\ ana_pc = "idle"

\* Lines 120-126: userid is the one given, or the owner of the token.
AnaResolveUser ==
    /\ ana_pc = "userid"
    /\ IF ana_settings.userid = None /\ Truthy(ana_settings.qiita_token)
       THEN \E r \in AuthResponses :
               LET id == get_authenticated_user(r)
               IN IF id = Raised
                  THEN ana_pc' = "raised" /\ ana_userid' = ana_userid
                  ELSE ana_pc' = "start_date" /\ ana_userid' = id
       ELSE ana_pc' = "start_date" /\ ana_userid' = ana_settings.userid
    /\ UNCHANGED <<ana_settings, ana_start_date, ana_end_date>>
    /\ UNCHANGED <<findVars, collectVars, countVars, csvVars, selectVars, toCsvVars,
                   runVars, statsVars>>

\* Lines 128-137: start_date is the one given, or the date of the user's
\* oldest article; end_date is the one given, or today.
AnaResolveDates ==
    /\ ana_pc = "start_date"
    /\ IF Truthy(ana_userid) /\ ana_settings.start_date = None
       THEN \E r \in OldestResponses :
               LET date == get_user_oldest_article_date(r)
               IN IF date = Raised
                  THEN /\ ana_pc' = "raised"
                       /\ UNCHANGED <<ana_start_date, ana_end_date>>
                  ELSE /\ ana_pc' = "run_all"
                       /\ ana_start_date' = date
                       /\ ana_end_date' = IF ana_settings.end_date = None
                                          THEN Today ELSE ana_settings.end_date
       ELSE /\ ana_pc' = "run_all"
            /\ ana_start_date' = ana_settings.start_date
            /\ ana_end_date' = IF ana_settings.end_date = None
                               THEN Today ELSE ana_settings.end_date
    /\ UNCHANGED <<ana_settings, ana_userid>>
    /\ UNCHANGED <<findVars, collectVars, countVars, csvVars, selectVars, toCsvVars,
                   runVars, statsVars>>

\* A python "a or b" on optional strings.
Or(a, b) == IF Truthy(a) THEN a ELSE b

\* Lines 140-149: run_count_reactions is called for all users.
AnaCallRunAll ==
    /\ ana_pc = "run_all"
    /\ ana_pc' = "in_run_all"
    /\ settings' = [qiita_token |-> ana_settings.qiita_token,
                    start_date |-> ana_start_date,
                    end_date |-> ana_end_date,
                    userid |-> None,
                    sample_size |-> ana_settings.sample_size]
    /\ query' = None
    /\ run_pc' = "settings"
    /\ UNCHANGED <<ana_settings, ana_userid, ana_start_date, ana_end_date>>
    /\ UNCHANGED <<findVars, collectVars, countVars, csvVars, selectVars, toCsvVars,
                   statsVars>>

\* Lines 154 and 171 (run_analyze_reactions, line 83): analyze_reactions is
\* called with the file the run has written and the thresholds 1, 2, 3.
AnaCallAnalyze ==
    /\ ana_pc \in {"in_run_all", "in_run_user"}
    /\ run_pc = "returned"
    /\ ana_pc' = IF ana_pc = "in_run_all" THEN "analyze_all" ELSE "analyze_user"
    /\ df' = read_csv(written)
    /\ n_values' = <<1, 2, 3>>
    /\ stats' = NoStats
    /\ stats_pc' = "analyze"
    /\ UNCHANGED <<ana_settings, ana_userid, ana_start_date, ana_end_date>>
    /\ UNCHANGED <<findVars, collectVars, countVars, csvVars, selectVars, toCsvVars,
                   runVars>>

\* Lines 156-166: with a userid, run_count_reactions is called for that user;
\* the locals of the first call and of its analysis are gone.
AnaCallRunUser ==
    /\ ana_pc = "analyze_all"
    /\ stats_pc = "done"
    /\ Truthy(ana_userid)
    /\ ana_pc' = "in_run_user"
    /\ settings' = [qiita_token |-> ana_settings.qiita_token,
                    start_date |-> Or(ana_start_date, "1900-01-01"),
                    end_date |-> Or(ana_end_date, "2099-12-31"),
                    userid |-> ana_userid,
                    sample_size |-> ana_settings.sample_size]
    /\ query' = None
    /\ run_pc' = "settings"
    /\ k' = 0 /\ left' = 0 /\ right' = 0 /\ last_valid_page' = 0
    /\ find_pc' = "idle" /\ find_ret' = NoValue /\ calls' = 0
    /\ failed_search' = {}
    /\ UNCHANGED source
    /\ sample_size' = 0 /\ pages_to_fetch' = <<>>
    /\ collected_articles' = <<>> /\ fetched' = <<>> /\ page_status' = <<>>
    /\ page_results' = <<>> /\ collect_pc' = "idle"
    /\ exit_status' = NoValue
    /\ articles' = <<>> /\ count_idx' = 0 /\ count_pc' = "idle"
    /\ counts' = [likes |-> EmptyDict, stocks |-> EmptyDict,
                  reactions |-> EmptyDict]
    /\ self_counts' = [likes |-> EmptyDict, stocks |-> EmptyDict,
                       reactions |-> EmptyDict]
    /\ written' = <<>> /\ write_pc' = "idle"
    /\ df' = <<>> /\ n_values' = <<>> /\ stats' = NoStats /\ stats_pc' = "idle"
    /\ UNCHANGED <<ana_settings, ana_userid, ana_start_date, ana_end_date>>
    /\ UNCHANGED <<csvVars, selectVars>>

\* Line 156 without a userid, or after line 171: run_analysis returns.
AnaReturn ==
    /\ \/ ana_pc = "analyze_all" /\ ~Truthy(ana_userid)
       \/ ana_pc = "analyze_user"
    /\ stats_pc = "done"
    /\ ana_pc' = "done"
    /\ UNCHANGED <<ana_settings, ana_userid, ana_start_date, ana_end_date>>
    /\ UNCHANGED <<findVars, collectVars, countVars, csvVars, selectVars, toCsvVars,
                   runVars, statsVars>>

AnalysisNext ==
    \/ AnaResolveUser
    \/ AnaResolveDates
    \/ AnaCallRunAll
    \/ RunLoadSettings
    \/ RunCheckToken
    \/ RunCreateQuery
    \/ FindFirstPage
    \/ FindStep
    \/ FindReturn
    \/ RunNoArticles
    \/ RunSelectPages
    \/ CollectFetchPage
    \/ CollectLoopEnd
    \/ CollectExit
    \/ CollectSample
    \/ CollectReturn
    \/ RunCount
    \/ CountStep
    \/ CountReturn
    \/ RunToCsv
    \/ AnaCallAnalyze
    \/ Analyze
    \/ AnalyzeEmpty
    \/ AnaCallRunUser
    \/ AnaReturn

(***************************************************************************)
(* Specifications                                                          *)
(***************************************************************************)
InitFind ==
    FindInit /\ CollectIdle /\ CountIdle /\ CsvIdle /\ ToCsvIdle /\ RunIdle
        /\ StatsIdle /\ AnaIdle /\ SelectIdle

SpecFind == InitFind /\ [][FindNext]_vars

InitCollect ==
    CollectInit /\ FindIdle /\ CountIdle /\ CsvIdle /\ ToCsvIdle /\ RunIdle
        /\ StatsIdle /\ AnaIdle /\ SelectIdle

SpecCollect == InitCollect /\ [][CollectNext]_vars

\* Either count_reactions is applied to a list of articles, or from_csv reads
\* a file.
InitCount ==
    CountInit /\ CsvIdle /\ FindIdle /\ CollectIdle /\ ToCsvIdle /\ RunIdle
        /\ StatsIdle /\ AnaIdle /\ SelectIdle

InitCsv ==
    CsvInit /\ CountIdle /\ FindIdle /\ CollectIdle /\ ToCsvIdle /\ RunIdle
        /\ StatsIdle /\ AnaIdle /\ SelectIdle

InitDist == InitCount \/ InitCsv

SpecDist == InitDist /\ [][DistNext]_vars

\* to_csv writes a ReactionCounts and from_csv reads the file back.
InitRoundTrip ==
    ToCsvInit /\ CsvIdle /\ FindIdle /\ CollectIdle /\ CountIdle /\ RunIdle
        /\ StatsIdle /\ AnaIdle /\ SelectIdle

SpecRoundTrip == InitRoundTrip /\ [][RoundTripNext]_vars

\* One call of run_count_reactions.
InitRun ==
    RunInit /\ FindIdle /\ CollectIdle /\ CountIdle /\ CsvIdle /\ ToCsvIdle
        /\ StatsIdle /\ AnaIdle /\ SelectIdle

SpecRun == InitRun /\ [][RunNext]_vars

\* One call of run_count_reactions against a remote source whose requests
\* may fail.
InitRunAny ==
    RunAnyInit /\ FindAnyIdle /\ CollectIdle /\ CountIdle /\ CsvIdle /\ ToCsvIdle
        /\ StatsIdle /\ AnaIdle /\ SelectIdle

SpecRunAny == InitRunAny /\ [][RunNext]_vars

\* find_valid_last_page on a remote source that may answer anything; every
\* step of the function is taken eventually.
InitFindAny ==
    FindAnyInit /\ CollectIdle /\ CountIdle /\ CsvIdle /\ ToCsvIdle /\ RunIdle
        /\ StatsIdle /\ AnaIdle /\ SelectIdle

SpecFindAny == InitFindAny /\ [][FindNext]_vars /\ WF_vars(FindNext)

\* create_query applied to its arguments.
InitQuery ==
    QueryInit /\ FindIdle /\ CollectIdle /\ CountIdle /\ CsvIdle /\ ToCsvIdle
        /\ StatsIdle /\ AnaIdle /\ SelectIdle

SpecQuery == InitQuery /\ [][CreateQuery]_vars

\* analyze_reactions applied to a file and a list of thresholds.
InitStats ==
    StatsInit /\ FindIdle /\ CollectIdle /\ CountIdle /\ CsvIdle /\ ToCsvIdle
        /\ RunIdle /\ AnaIdle /\ SelectIdle

SpecStats == InitStats /\ [][StatsNext]_vars

\* One call of run_analysis.
InitAnalysis ==
    AnaInit /\ FindIdle /\ CollectIdle /\ CountIdle /\ CsvIdle /\ ToCsvIdle
        /\ RunIdle /\ StatsIdle /\ SelectIdle

SpecAnalysis == InitAnalysis /\ [][AnalysisNext]_vars

\* The page choice of run_count_reactions applied to its two inputs.
InitSelect ==
    SelectInit /\ FindIdle /\ CollectIdle /\ CountIdle /\ CsvIdle /\ ToCsvIdle
        /\ RunIdle /\ StatsIdle /\ AnaIdle

SpecSelect == InitSelect /\ [][Select]_vars

(***************************************************************************)
(* Claims about find_valid_last_page (checked under SpecFind)              *)
(***************************************************************************)
\* C1: for the monotonic pattern k (pages 1..k non-empty, all above empty),
\* find_valid_last_page returns 0 when k = 0 and min(k, 100) otherwise.
C1_ReturnsLastNonEmptyPage ==
    find_pc = "done" => find_ret = (IF k = 0 THEN 0 ELSE Min(k, 100))

\* A source with more than 100 non-empty pages: the result is capped at 100.
C1_Witness == find_pc = "done" /\ k > 100 /\ find_ret = 100

\* C2 (as stated): one call of find_valid_last_page makes at most 7 fetch
\* calls, the fetch of page 1 included.
C2_AtMostSevenCalls == calls <= 7

\* C2 (amended): it makes at most 8 fetch calls: the fetch of page 1 and at
\* most 7 midpoint fetches.
C2_AtMostEightCalls == calls <= 8

\* A call that returns after exactly 8 fetches.
C2_Witness == find_pc = "done" /\ calls = 8

(***************************************************************************)
(* Claims about collect_articles (checked under SpecCollect)               *)
(***************************************************************************)
\* Everything get_articles returned during the call, in fetch order.
Accumulated == Flatten(page_results)

\* C3: a call of collect_articles that returns a list returns at most
\* sample_size articles.
C3_AtMostSampleSize ==
    collect_pc = "done" => Len(collected_articles) <= sample_size

\* A call that accumulated more than a positive sample_size and returned.
C3_Witness ==
    /\ collect_pc = "done"
    /\ sample_size >= 1
    /\ Len(Accumulated) > sample_size
    /\ Len(collected_articles) = sample_size

\* C4: when more than sample_size articles were accumulated, the returned
\* list has exactly sample_size elements, all of them accumulated articles,
\* no occurrence of an accumulated article being returned twice.
C4_SampleWithoutReplacement ==
    (collect_pc = "done" /\ Len(Accumulated) > sample_size) =>
        /\ Len(collected_articles) = sample_size
        /\ SeqToBag(collected_articles) \sqsubseteq SeqToBag(Accumulated)

\* A sample of two articles that is not a prefix of the accumulator, drawn
\* from an accumulator that holds the same article twice.
C4_Witness ==
    /\ collect_pc = "done"
    /\ sample_size = 2
    /\ Len(Accumulated) > sample_size
    /\ collected_articles # SubSeq(Accumulated, 1, 2)
    /\ \E i, j \in DOMAIN Accumulated : i # j /\ Accumulated[i] = Accumulated[j]

\* C5: if fewer than sample_size articles are returned, every entry of
\* pages_to_fetch was fetched once, in the order given, and the returned list
\* is the concatenation of the pages' articles in fetch order.
C5_UnderCollectionReturnedAsIs ==
    (collect_pc = "done" /\ Len(collected_articles) < sample_size) =>
        /\ fetched = pages_to_fetch
        /\ Len(page_results) = Len(pages_to_fetch)
        /\ collected_articles = Accumulated

\* Two non-empty pages that together hold fewer than sample_size articles.
C5_Witness ==
    /\ collect_pc = "done"
    /\ Len(collected_articles) < sample_size
    /\ Len(fetched) = 2
    /\ page_results[1] # <<>>
    /\ page_results[2] # <<>>

\* C6: for every sample_size >= 0, collect_articles never returns an empty
\* list to its caller (it exits with status 1 instead).
C6_NeverReturnsEmpty ==
    (collect_pc = "done" /\ sample_size >= 0) => collected_articles # <<>>

\* C7: the pages are fetched in the order of pages_to_fetch, and once a
\* fetch has brought the accumulator to sample_size no further page is
\* fetched; the pages fetched are a prefix of pages_to_fetch.
C7_FetchesPrefixAndStopsEarly ==
    [][fetched' # fetched =>
        /\ Len(fetched) < Len(pages_to_fetch)
        /\ fetched' = SubSeq(pages_to_fetch, 1, Len(fetched) + 1)
        /\ (fetched # <<>> => Len(collected_articles) < sample_size)]_vars

\* A call that stopped early: it returned with pages left unfetched.
C7_Witness ==
    /\ collect_pc = "done"
    /\ fetched # <<>>
    /\ Len(fetched) < Len(pages_to_fetch)

\* C8: a failed (non-200) fetch adds no article and keeps the articles
\* accumulated so far, and collection goes on with the next page unless the
\* list is exhausted or the accumulator has reached sample_size; the loop is
\* left only for one of these two reasons.
C8_FailedFetchIsEmptyPage ==
    /\ [][(Len(page_status') > Len(page_status)
            /\ page_status'[Len(page_status')] # 200) =>
          /\ collected_articles' = collected_articles
          /\ (Len(fetched') < Len(pages_to_fetch)
                /\ Len(collected_articles) < sample_size) => collect_pc' = "loop"]_vars
    /\ [](collect_pc \in {"after_loop", "done", "exit", "raised"} =>
            (fetched = pages_to_fetch \/ Len(Accumulated) >= sample_size))

\* The first page was fetched and held articles, the second fetch failed, and
\* the call returned the first page's articles.
C8_WitnessKept ==
    /\ collect_pc = "done"
    /\ Len(page_status) = 2
    /\ page_status[1] = 200
    /\ page_status[2] # 200
    /\ page_results[1] # <<>>
    /\ collected_articles = page_results[1]

\* The first fetch failed and the second page was still fetched and returned.
C8_Witness ==
    /\ collect_pc = "done"
    /\ Len(page_status) = 2
    /\ page_status[1] # 200
    /\ page_status[2] = 200
    /\ collected_articles = page_results[2]

(***************************************************************************)
(* Claims about count_reactions and from_csv (checked under SpecDist)      *)
(***************************************************************************)
\* The number of the articles given whose field (or sum of fields) is key.
NumWithLikes(key) == Cardinality({i \in DOMAIN articles : articles[i].likes_count = key})

NumWithStocks(key) == Cardinality({i \in DOMAIN articles : articles[i].stocks_count = key})

NumWithReactions(key) ==
    Cardinality({i \in DOMAIN articles :
                    articles[i].likes_count + articles[i].stocks_count = key})

\* C9: count_reactions returns three distributions whose frequencies each sum
\* to the number of articles; likes[key], stocks[key] and reactions[key] are
\* the numbers of articles whose like count, stock count and per-article sum
\* like + stock is key.
C9_DistributionsCountArticles ==
    count_pc = "done" =>
        /\ DictSum(counts.likes) = Len(articles)
        /\ DictSum(counts.stocks) = Len(articles)
        /\ DictSum(counts.reactions) = Len(articles)
        /\ \A key \in (0..(2 * MaxCount)) \cup DOMAIN counts.likes
                        \cup DOMAIN counts.stocks \cup DOMAIN counts.reactions :
              /\ DictGet(counts.likes, key, 0) = NumWithLikes(key)
              /\ DictGet(counts.stocks, key, 0) = NumWithStocks(key)
              /\ DictGet(counts.reactions, key, 0) = NumWithReactions(key)

\* Two articles with different like counts and the same like + stock sum.
C9_Witness ==
    /\ count_pc = "done"
    /\ \E i, j \in DOMAIN articles :
          /\ articles[i].likes_count # articles[j].likes_count
          /\ articles[i].likes_count + articles[i].stocks_count
                = articles[j].likes_count + articles[j].stocks_count
          /\ counts.reactions[articles[i].likes_count + articles[i].stocks_count] >= 2

AllPositive(d) == \A key \in DOMAIN d : d[key] > 0

\* C10: the distributions built by count_reactions and by from_csv never map
\* a key to 0 (or less), whatever the articles and whatever the rows of the
\* file; a header-only file yields three empty distributions.
C10_OnlyPositiveCounts ==
    /\ AllPositive(counts.likes)
    /\ AllPositive(counts.stocks)
    /\ AllPositive(counts.reactions)
    /\ AllPositive(likes)
    /\ AllPositive(stocks)
    /\ AllPositive(reactions)
    /\ (csv_pc = "done" /\ csv_file = <<>>) =>
          (likes = EmptyDict /\ stocks = EmptyDict /\ reactions = EmptyDict)

\* A file read to its end with a row whose likes column is 0 and whose
\* reactions column is positive: the value is a key of reactions only.
C10_Witness ==
    /\ csv_pc = "done"
    /\ \E i \in DOMAIN csv_file :
          /\ int(csv_file[i].likes) = 0
          /\ int(csv_file[i].reactions) > 0
          /\ int(csv_file[i].value) \notin DOMAIN likes
          /\ int(csv_file[i].value) \in DOMAIN reactions

(***************************************************************************)
(* Claims about to_csv and the round trip (checked under SpecRoundTrip)    *)
(***************************************************************************)
ReadBack == [likes |-> likes, stocks |-> stocks, reactions |-> reactions]

NoZeroCount(rc) ==
    /\ \A v \in DOMAIN rc.likes : rc.likes[v] # 0
    /\ \A v \in DOMAIN rc.stocks : rc.stocks[v] # 0
    /\ \A v \in DOMAIN rc.reactions : rc.reactions[v] # 0

\* C11: for every ReactionCounts d in which no key maps to a zero count,
\* reading back the file that to_csv wrote for d gives d again.
C11_RoundTripIsIdentity ==
    (csv_pc = "done" /\ write_pc = "written" /\ NoZeroCount(self_counts))
        => ReadBack = self_counts

\* A triple with a two-digit value and a two-digit count, and a value that is
\* a key of stocks only, was written and read back.
C11_Witness ==
    /\ csv_pc = "done" /\ write_pc = "written"
    /\ NoZeroCount(self_counts)
    /\ DOMAIN self_counts.likes = {12} /\ self_counts.likes[12] = 10
    /\ DOMAIN self_counts.stocks = {7}
    /\ DOMAIN self_counts.reactions = {7, 12}
    /\ ReadBack = self_counts

UnionOfKeys(rc) ==
    DOMAIN rc.likes \cup DOMAIN rc.stocks \cup DOMAIN rc.reactions

\* C12: to_csv writes the header value,likes,stocks,reactions and then exactly
\* one line per distinct value of the union of the keys of the three
\* distributions, in strictly ascending numeric order of the value; each count
\* cell holds that distribution's count for the value, or 0 when the value is
\* not a key of that distribution.
C12_ToCsvLayout ==
    write_pc = "written" =>
        /\ Len(written) = 1 + Cardinality(UnionOfKeys(self_counts))
        /\ written[1] = <<"value", "likes", "stocks", "reactions">>
        /\ {int(written[i][1]) : i \in 2..Len(written)}
              = UnionOfKeys(self_counts)
        /\ \A i \in 2..Len(written) : \A j \in 2..Len(written) :
              i < j => int(written[i][1]) < int(written[j][1])
        /\ \A i \in 2..Len(written) :
              LET v == int(written[i][1])
              IN /\ Len(written[i]) = 4
                 /\ int(written[i][2]) =
                       (IF v \in DOMAIN self_counts.likes
                        THEN self_counts.likes[v] ELSE 0)
                 /\ int(written[i][3]) =
                       (IF v \in DOMAIN self_counts.stocks
                        THEN self_counts.stocks[v] ELSE 0)
                 /\ int(written[i][4]) =
                       (IF v \in DOMAIN self_counts.reactions
                        THEN self_counts.reactions[v] ELSE 0)
                 /\ \A c \in 1..4 : written[i][c] # <<>>

\* Two values were written, 7 before 12, and 12 is not a key of likes: its
\* likes cell is 0.
C12_Witness ==
    /\ write_pc = "written"
    /\ Len(written) = 3
    /\ written[2][1] = <<"7">> /\ written[3][1] = <<"1", "2">>
    /\ 12 \notin DOMAIN self_counts.likes
    /\ written[3][2] = <<"0">>
    /\ written[3][4] = <<"1", "0">>

(***************************************************************************)
(* Claims about run_count_reactions (checked under SpecRun)                *)
(***************************************************************************)
PagesChosen == run_pc \in {"collect", "count", "returned"}

\* C13: with L = last_valid_page >= 1 and s = sample_size, the pages chosen
\* are 1..L in ascending order when s >= L * 100; otherwise, with
\* needed = s // 100 + 1, they are exactly `needed` pairwise distinct pages
\* of 1..L when needed <= L, and 1..L in ascending order when needed > L.
C13_PageSelection ==
    (PagesChosen /\ find_ret >= 1) =>
        LET L == find_ret
            s == settings.sample_size
            needed == (s \div 100) + 1
            all_pages == [i \in 1..L |-> i]
        IN IF s >= L * 100 THEN pages_to_fetch = all_pages
           ELSE IF needed <= L
                THEN /\ Len(pages_to_fetch) = needed
                     /\ \A i \in 1..needed : pages_to_fetch[i] \in 1..L
                     /\ \A i, j \in 1..needed :
                           i # j => pages_to_fetch[i] # pages_to_fetch[j]
                ELSE pages_to_fetch = all_pages

\* Two of three pages were drawn for sample_size = 100, not in ascending
\* order.
C13_Witness ==
    /\ PagesChosen
    /\ find_ret = 3
    /\ settings.sample_size = 100
    /\ pages_to_fetch = <<3, 1>>

\* All pages are taken because sample_size covers them.
C13_WitnessAll ==
    /\ PagesChosen
    /\ find_ret = 2
    /\ settings.sample_size = 200
    /\ pages_to_fetch = <<1, 2>>

\* The run obtained no article: page 1 was empty at the first fetch, or the
\* collector's loop has ended and every page it fetched was empty.
NoArticleObtained ==
    \/ find_pc = "done" /\ find_ret = 0
    \/ /\ collect_pc \in {"after_loop", "exit", "done", "raised"}
       /\ \A i \in DOMAIN page_results : page_results[i] = <<>>

RunExited == run_pc = "exit" \/ collect_pc = "exit"

\* C14: a run that obtains no article never writes the CSV file, never
\* returns and never raises; it has exited with status 1 or its next step is
\* that exit.
C14_NoArticleNoCsv ==
    NoArticleObtained =>
        /\ written = <<>> /\ write_pc = "idle"
        /\ run_pc \notin {"count", "returned", "raised"}
        /\ collect_pc \notin {"done", "raised"}
        /\ IF RunExited THEN exit_status = 1
           ELSE /\ exit_status = NoValue
                /\ ENABLED (RunNoArticles \/ CollectExit)

\* Every page the collector fetched failed or was empty, and the run exited.
C14_Witness ==
    /\ NoArticleObtained
    /\ find_ret = 2
    /\ Len(fetched) = 2
    /\ page_status = <<500, 200>>
    /\ collect_pc = "exit"
    /\ exit_status = 1
    /\ written = <<>>

\* Page 1 was empty at the first fetch, and the run exited.
C14_WitnessFirstPage ==
    /\ NoArticleObtained
    /\ find_ret = 0 /\ calls = 1
    /\ run_pc = "exit"
    /\ exit_status = 1
    /\ written = <<>>

(***************************************************************************)
(* Claims about create_query (checked under SpecQuery)                     *)
(***************************************************************************)
\* An account filter is given when userid is neither None nor empty.
AccountGiven == settings.userid # None /\ settings.userid # ""

\* C16: create_query returns exactly "created:>=<start> created:<=<end>",
\* followed by " user:<account>" when an account filter is given and by
\* nothing when none is given.
C16_QueryText ==
    run_pc = "query_built" =>
        /\ ~AccountGiven =>
              query = "created:>=" \o settings.start_date
                          \o " created:<=" \o settings.end_date
        /\ AccountGiven =>
              query = "created:>=" \o settings.start_date
                          \o " created:<=" \o settings.end_date
                          \o " user:" \o settings.userid
        /\ (/\ settings.start_date = "2024-01-01"
            /\ settings.end_date = "2024-12-31"
            /\ settings.userid = "test_user") =>
              query = "created:>=2024-01-01 created:<=2024-12-31 user:test_user"
        /\ (/\ settings.start_date = "2024-01-01"
            /\ settings.end_date = "2024-12-31"
            /\ settings.userid = None) =>
              query = "created:>=2024-01-01 created:<=2024-12-31"

\* The query of a date range with an account filter.
C16_Witness ==
    /\ run_pc = "query_built"
    /\ settings.userid = "test_user"
    /\ query = "created:>=2024-01-01 created:<=2024-12-31 user:test_user"

\* The query of a date range without an account filter.
C16_WitnessNoAccount ==
    /\ run_pc = "query_built"
    /\ settings.userid = None
    /\ query = "created:>=2024-01-01 created:<=2024-12-31"

(***************************************************************************)
(* Claims about analyze_reactions (checked under SpecStats)                *)
(*                                                                         *)
(* The expected statistics are computed from the rows of the file by       *)
(* counting, without expanding or sorting.                                 *)
(***************************************************************************)
Freq == [i \in DOMAIN df |-> df[i].reactions]

Weight == [i \in DOMAIN df |-> df[i].value * df[i].reactions]

TotalArticles == SumOver(Freq, DOMAIN df)

CountBelow(x) == SumOver(Freq, {i \in DOMAIN df : df[i].value < x})

CountAtMost(x) == SumOver(Freq, {i \in DOMAIN df : df[i].value <= x})

CountAtLeast(x) == SumOver(Freq, {i \in DOMAIN df : df[i].value >= x})

\* The j-th smallest article value, j in 1..TotalArticles.
OrderStat(j) ==
    CHOOSE v \in {df[i].value : i \in DOMAIN df} :
        CountBelow(v) < j /\ j <= CountAtMost(v)

Analyzed == stats_pc = "done" /\ TotalArticles > 0

\* C17: the keys of n_more_or_ratio are exactly the thresholds asked for, and
\* the value for n is 100 * (number of articles with value >= n) / total, a
\* number in [0, 100]; for the values 1..5 once each the thresholds 1, 2, 3
\* give 100, 80, 60 and the thresholds 2, 4, 5 give 80, 40, 20.
C17_RatioPerThreshold ==
    Analyzed =>
        /\ DOMAIN stats.n_more_or_ratio = Range(n_values)
        /\ \A n \in Range(n_values) :
              /\ RatEq(stats.n_more_or_ratio[n],
                       Rat(100 * CountAtLeast(n), TotalArticles))
              /\ RatLeq(Rat(0, 1), stats.n_more_or_ratio[n])
              /\ RatLeq(stats.n_more_or_ratio[n], Rat(100, 1))
        /\ (df = OneEach(1, 5) /\ n_values = <<1, 2, 3>>) =>
              /\ RatEq(stats.n_more_or_ratio[1], Rat(100, 1))
              /\ RatEq(stats.n_more_or_ratio[2], Rat(80, 1))
              /\ RatEq(stats.n_more_or_ratio[3], Rat(60, 1))
        /\ (df = OneEach(1, 5) /\ n_values = <<2, 4, 5>>) =>
              /\ RatEq(stats.n_more_or_ratio[2], Rat(80, 1))
              /\ RatEq(stats.n_more_or_ratio[4], Rat(40, 1))
              /\ RatEq(stats.n_more_or_ratio[5], Rat(20, 1))

\* The values 1..5 once each with the thresholds 2, 4, 5.
C17_Witness ==
    /\ Analyzed
    /\ df = OneEach(1, 5)
    /\ n_values = <<2, 4, 5>>
    /\ RatEq(stats.n_more_or_ratio[4], Rat(40, 1))

\* A threshold above every value, and one met by every article.
C17_WitnessExtremes ==
    /\ Analyzed
    /\ n_values = <<11, 1>>
    /\ RatEq(stats.n_more_or_ratio[11], Rat(0, 1))
    /\ RatEq(stats.n_more_or_ratio[1], Rat(100, 1))
    /\ TotalArticles = 3

\* The median by rank: the middle article value, or the mean of the two
\* middle ones when the number of articles is even.
MedianOfRanks(first, n) ==
    IF n % 2 = 1 THEN Rat(OrderStat(first + (n + 1) \div 2 - 1), 1)
    ELSE Rat(OrderStat(first + n \div 2 - 1) + OrderStat(first + n \div 2), 2)

\* C18: the analyzer expands the file to the multiset in which each value
\* occurs as often as its frequency (a row of frequency 0 adds nothing);
\* total_articles is the sum of the frequencies, mean the arithmetic mean and
\* median the middle value (the mean of the two middle values for an even
\* size); the values 1..5 once each give 5, 3 and 3.
C18_BasicStatistics ==
    Analyzed =>
        /\ SeqToBag(Expand(df)) =
              [v \in {df[i].value : i \in {j \in DOMAIN df : df[j].reactions > 0}}
                  |-> CountAtMost(v) - CountBelow(v)]
        /\ stats.total_articles = TotalArticles
        /\ RatEq(stats.mean, Rat(SumOver(Weight, DOMAIN df), TotalArticles))
        /\ RatEq(stats.median, MedianOfRanks(1, TotalArticles))
        /\ df = OneEach(1, 5) =>
              /\ stats.total_articles = 5
              /\ RatEq(stats.median, Rat(3, 1))
              /\ RatEq(stats.mean, Rat(3, 1))

\* An even number of articles whose two middle values differ, in a file that
\* has a row of frequency 0.
C18_Witness ==
    /\ Analyzed
    /\ \E i \in DOMAIN df : df[i].reactions = 0
    /\ \E i \in DOMAIN df : df[i].reactions = 2
    /\ stats.total_articles = 4
    /\ RatEq(stats.median, Rat(3, 2))

\* The values 1..5 once each.
C18_WitnessExample ==
    /\ Analyzed
    /\ df = OneEach(1, 5)
    /\ stats.total_articles = 5
    /\ RatEq(stats.median, Rat(3, 1))
    /\ RatEq(stats.mean, Rat(3, 1))

\* The 90th percentile by rank: linear interpolation at rank 0.9 * (n - 1)
\* (counted from 0) of the article values in ascending order.
ThresholdOfRanks ==
    LET n == TotalArticles
        lo == OrderStat((9 * (n - 1)) \div 10 + 1)
        hi == OrderStat(Min((9 * (n - 1)) \div 10 + 2, n))
        r == (9 * (n - 1)) % 10
    IN Rat(10 * lo + r * (hi - lo), 10)

TopRows == {i \in DOMAIN df : 10 * df[i].value >= ThresholdOfRanks.num}

\* C19: top_10_threshold is the linearly interpolated 90th percentile of the
\* multiset; top_10_count, top_10_mean and top_10_median are the size, the
\* mean and the median of the articles with value >= the threshold; the
\* values 1..10 once each give 9.1, 1, 10 and 10.
C19_TopTenStatistics ==
    Analyzed =>
        /\ RatEq(stats.top_10_threshold, ThresholdOfRanks)
        /\ stats.top_10_count = SumOver(Freq, TopRows)
        /\ stats.top_10_count >= 1
        /\ RatEq(stats.top_10_mean,
                 Rat(SumOver(Weight, TopRows), SumOver(Freq, TopRows)))
        /\ RatEq(stats.top_10_median,
                 MedianOfRanks(TotalArticles - SumOver(Freq, TopRows) + 1,
                               SumOver(Freq, TopRows)))
        /\ df = OneEach(1, 10) =>
              /\ RatEq(stats.top_10_threshold, Rat(91, 10))
              /\ stats.top_10_count = 1
              /\ RatEq(stats.top_10_mean, Rat(10, 1))
              /\ RatEq(stats.top_10_median, Rat(10, 1))

\* The values 1..10 once each: the threshold 9.1 lies between two values.
C19_Witness ==
    /\ Analyzed
    /\ df = OneEach(1, 10)
    /\ RatEq(stats.top_10_threshold, Rat(91, 10))
    /\ stats.top_10_count = 1

\* Six articles: the threshold lies halfway between the two largest values.
C19_WitnessInterpolated ==
    /\ Analyzed
    /\ stats.total_articles = 6
    /\ RatEq(stats.top_10_threshold, Rat(5, 2))
    /\ stats.top_10_count = 1

\* The threshold is a value that two articles have.
C19_WitnessTie ==
    /\ Analyzed
    /\ stats.total_articles = 5
    /\ RatEq(stats.top_10_threshold, Rat(3, 1))
    /\ stats.top_10_count = 2

\* The largest article value of the file.
MaxArticleValue == OrderStat(TotalArticles)

\* C24: for a file with at least one article, the articles at or above the
\* 90th percentile are at least one and at most all of them, because the
\* interpolated percentile never exceeds the largest value (nor falls below
\* the smallest); top_10_mean and top_10_median are then numbers, not nan,
\* and lie between the threshold and the largest value.
C24_TopDecileNotEmpty ==
    Analyzed =>
        /\ 1 <= stats.top_10_count
        /\ stats.top_10_count <= stats.total_articles
        /\ RatLeq(stats.top_10_threshold, Rat(MaxArticleValue, 1))
        /\ RatLeq(Rat(OrderStat(1), 1), stats.top_10_threshold)
        /\ stats.top_10_mean # NaN /\ stats.top_10_mean.den = stats.top_10_count
        /\ stats.top_10_median # NaN
        /\ RatLeq(stats.top_10_threshold, stats.top_10_mean)
        /\ RatLeq(stats.top_10_mean, Rat(MaxArticleValue, 1))
        /\ RatLeq(stats.top_10_threshold, stats.top_10_median)
        /\ RatLeq(stats.top_10_median, Rat(MaxArticleValue, 1))

\* Every article has the same value: the top decile is the whole file.
C24_Witness ==
    /\ Analyzed
    /\ stats.total_articles = 2
    /\ stats.top_10_count = 2
    /\ RatEq(stats.top_10_threshold, Rat(MaxArticleValue, 1))

\* The threshold lies strictly below the largest value, which one article of
\* seven has.
C24_WitnessBelowMax ==
    /\ Analyzed
    /\ stats.total_articles = 7
    /\ stats.top_10_count = 1
    /\ ~RatLeq(Rat(MaxArticleValue, 1), stats.top_10_threshold)

(***************************************************************************)
(* Claims about run_analysis (checked under SpecAnalysis)                  *)
(***************************************************************************)
ProcessRaised ==
    \/ ana_pc = "raised"
    \/ run_pc = "raised"
    \/ collect_pc = "raised"
    \/ stats_pc = "raised"

\* C15: with an empty token a run of run_analysis, whichever of userid and
\* start_date are given, never raises an exception and never returns: it goes
\* on until the process exits with a non-zero status.
C15_MissingTokenExits ==
    ana_settings.qiita_token = "" =>
        /\ ~ProcessRaised
        /\ ana_pc # "done"
        /\ IF exit_status = NoValue THEN ENABLED AnalysisNext
           ELSE exit_status # 0

\* The same for run_count_reactions called on its own with valid settings
\* (checked under SpecRun): an empty token ends in sys.exit(1) before any
\* request.
RunMissingTokenExits ==
    (settings.qiita_token = "" /\ settings.start_date # None) =>
        /\ run_pc \in {"settings", "token", "exit"}
        /\ run_pc = "exit" => exit_status = 1
        /\ calls = 0 /\ fetched = <<>>

\* C20: whenever analyze_reactions runs in run_analysis, the reactions column
\* of the file it is given sums to at least 1.
C20_AnalyzerInputNotEmpty ==
    stats_pc \in {"analyze", "done", "raised"} => TotalArticles >= 1

(***************************************************************************)
(* Claims about requests that fail (checked under SpecRunAny, SpecFindAny) *)
(***************************************************************************)
\* C21: within one run of run_count_reactions, a page whose fetch by the
\* search has failed is not requested again, neither by a later step of the
\* search nor by the collection.
C21_FailedPageNotRequestedAgain ==
    [][/\ (find_pc = "search" /\ calls' = calls + 1)
            => Mid(left, right) \notin failed_search
       /\ Len(fetched') = Len(fetched) + 1
            => fetched'[Len(fetched')] \notin failed_search]_vars

\* C21 as it holds: the same for every page but page 1.  The search fetches
\* page 1 twice, as its first probe and as its last midpoint; when the probe
\* succeeds and the midpoint fetch fails, last_valid_page stays 1 and the
\* collection requests page 1 again.
C21_FailedPageAboveOneNotRequestedAgain ==
    [][/\ (find_pc = "search" /\ calls' = calls + 1)
            => Mid(left, right) \notin failed_search \ {1}
       /\ Len(fetched') = Len(fetched) + 1
            => fetched'[Len(fetched')] \notin failed_search \ {1}]_vars

\* The search fetch of page 3 failed, and the collection then requested pages.
C21_Witness ==
    /\ 3 \in failed_search
    /\ 50 \in failed_search
    /\ find_ret = 2
    /\ Len(fetched) = 2

\* The midpoint fetch of page 1 failed, and the collection requested page 1.
C21_WitnessPageOne ==
    /\ failed_search = {1}
    /\ find_ret = 1
    /\ fetched = <<1>>

\* C22: on a remote source that may answer anything at every request
\* (a failure, an empty page or articles, monotonic or not),
\* find_valid_last_page returns, and every midpoint fetch strictly shrinks
\* the interval [left, right] from one side, the other bound staying put.
C22_SearchTerminates ==
    /\ <>(find_pc = "done")
    /\ [][(find_pc = "search" /\ calls' = calls + 1)
            => /\ left <= Mid(left, right) /\ Mid(left, right) <= right
               /\ right' - left' < right - left
               /\ \/ left' = Mid(left, right) + 1 /\ right' = right
                  \/ left' = left /\ right' = Mid(left, right) - 1]_vars

\* The search has returned after a pattern no monotonic source shows: page 1
\* held articles at the probe and was empty, without failing, as a midpoint.
C22_Witness ==
    /\ find_pc = "done"
    /\ left = 1 /\ right = 0
    /\ failed_search = {}
    /\ find_ret = 1
    /\ calls = 7

\* The search has returned 1 after every midpoint fetch failed.
C22_WitnessAllFailed ==
    /\ find_pc = "done"
    /\ failed_search = {50, 25, 12, 6, 3, 1}
    /\ find_ret = 1
    /\ calls = 7
(***************************************************************************)
(* Claims about the page choice (checked under SpecSelect)                 *)
(***************************************************************************)
\* C23: for a sample_size >= 0 and a last_valid_page in 1..100, the branch
\* "num_pages_needed > last_valid_page" is never taken: whenever
\* sample_size < last_valid_page * 100, num_pages_needed is at least 1 and at
\* most last_valid_page.
C23_FallbackNeverTaken ==
    (sel_pc = "selected" /\ sel_sample_size >= 0)
        => /\ sel_branch # "fallback"
           /\ sel_sample_size < sel_last_valid_page * 100
                => /\ sel_branch = "sample"
                   /\ 1 <= sel_num_pages_needed
                   /\ sel_num_pages_needed <= sel_last_valid_page

\* 9999 articles to sample from 100 pages: all 100 pages are needed, and they
\* are drawn by random.sample.
C23_Witness ==
    /\ sel_pc = "selected"
    /\ sel_sample_size = 9999
    /\ sel_last_valid_page = 100
    /\ sel_num_pages_needed = 100
    /\ sel_branch = "sample"

\* One article more and every page is listed in order.
C23_WitnessAll ==
    /\ sel_pc = "selected"
    /\ sel_sample_size = 10000
    /\ sel_last_valid_page = 100
    /\ sel_num_pages_needed = NoValue
    /\ sel_branch = "all"
====
